---------------------------- MODULE Spec2Model ----------------------------
(***************************************************************************)
(* State-machine model of the oscilloscope synthesizer (renderer.js).      *)
(*                                                                         *)
(* Units.  Times are in tenths of a second (attack 0.1 s = 1, release      *)
(* 0.3 s = 3) and are kept relative to audioContext.currentTime: a time    *)
(* the code schedules as currentTime + d is stored as the d that is left,  *)
(* and the audio clock's progress counts it down.  The base frequency is   *)
(* in hundredths of a hertz (261.63 Hz = 26163); multipliers are scaled by *)
(* MultScale, so an oscillator frequency is in 10^-6 Hz.  Volumes and      *)
(* gains are in hundredths (0.5 = 50, 1 = 100).                            *)
(*                                                                         *)
(* The state of the page is the record St; every handler is an operator    *)
(* from a state record (and its inputs) to the state record it leaves      *)
(* behind, and every action applies one handler to St.                     *)
(***************************************************************************)
EXTENDS Integers, Sequences, FiniteSets, TLC

VARIABLES
    audioContext,       \* TRUE when audioContext is set (non-null)
    analyser,           \* TRUE when analyser is set
    masterGain,         \* [node |-> masterGain is set, value |-> its gain.value]
    activeOscillators,  \* the registry: a function from its keys (notes) to
                        \* the index in nodes of the stored pair
    nodes,              \* every oscillator/gain pair ever created, in order;
                        \* fresh: the pair is in the registry and was made
                        \* within this unit of the audio clock
    waveform, baseFrequency, volume, attack, release,   \* settings
    rafPending,         \* number of pending requestAnimationFrame callbacks
    animationId,        \* 0 for null, else the handle of the last frame request
    controlEvents,      \* how many control changes the user has made
    canvas,             \* what the canvas shows: "idle" or "scope"
    clickOnce,          \* the once-listener of 'click' is still registered
    keydownOnce,        \* the once-listener of 'keydown' is still registered
    created,            \* how many contexts/analysers/master gains/loops were made
    thrown,             \* exception thrown by the last handler, "none" if none
    host                \* what the host environment can provide

vars == << audioContext, analyser, masterGain, activeOscillators, nodes,
           waveform, baseFrequency, volume, attack, release,
           rafPending, animationId, controlEvents, canvas, clickOnce, keydownOnce, created,
           thrown, host >>

-----------------------------------------------------------------------------
(* Bounds of the model *)

MaxNodes == 2           \* how many oscillators are created in one run
MaxControlEvents == 1   \* how many control changes are made in one run

-----------------------------------------------------------------------------
(* Program constants *)

NaN == -1                   \* a frequency that is not a number

MultScale == 10000          \* fixed point of the multipliers
GainOne == 100              \* gain 1, target of the attack ramp
DefaultGain == 100          \* value of a fresh GainNode's gain (Web Audio: 1)

NoteOrder == << "C", "C#", "D", "D#", "E", "F", "F#", "G", "G#", "A", "A#",
                "B", "C5", "C#5", "D5", "D#5", "E5" >>

Notes == { NoteOrder[i] : i \in 1..Len(NoteOrder) }

\* round(2^(k/12) * MultScale), k = 0..16
PowTwoTwelfths == << 10595, 11225, 11892, 12599, 13348, 14142, 14983, 15874,
                     16818, 17818, 18877, 20000, 21189, 22449, 23784, 25198 >>

\* the power of the semitone below: Math.pow(2, (k - 1)/12), scaled
Pow2_SemitoneBelow(k) == IF k = 1 THEN 1 * MultScale ELSE PowTwoTwelfths[k - 1]

\* Math.pow(2, k/12), scaled
Pow2(k) == PowTwoTwelfths[k]

\* a table that folds the upper octave's C onto the root
noteMultipliers_OctaveFolded ==
    [ n \in Notes |->
        IF n \in {"C", "C5"} THEN 1 * MultScale
        ELSE Pow2(CHOOSE k \in 1..Len(PowTwoTwelfths) : NoteOrder[k + 1] = n) ]

noteMultipliers ==
    [ n \in Notes |->
        CASE n = "C"   -> 1 * MultScale
          [] n = "C#"  -> Pow2(1)
          [] n = "D"   -> Pow2(2)
          [] n = "D#"  -> Pow2(3)
          [] n = "E"   -> Pow2(4)
          [] n = "F"   -> Pow2(5)
          [] n = "F#"  -> Pow2(6)
          [] n = "G"   -> Pow2(7)
          [] n = "G#"  -> Pow2(8)
          [] n = "A"   -> Pow2(9)
          [] n = "A#"  -> Pow2(10)
          [] n = "B"   -> Pow2(11)
          [] n = "C5"  -> 2 * MultScale
          [] n = "C#5" -> Pow2(13)
          [] n = "D5"  -> Pow2(14)
          [] n = "D#5" -> Pow2(15)
          [] n = "E5"  -> Pow2(16) ]

KeyOrder == << "a", "w", "s", "e", "d", "f", "t", "g", "y", "h", "u", "j",
               "k", "o", "l", "p", ";" >>

MappedKeys == { KeyOrder[i] : i \in 1..Len(KeyOrder) }

keyToNote ==
    [ k \in MappedKeys |->
        NoteOrder[CHOOSE i \in 1..Len(KeyOrder) : KeyOrder[i] = k] ]

\* e.key.toLowerCase(), on the keys the model presses
ToLowerCase(k) ==
    CASE k = "A" -> "a"
      [] k = "H" -> "h"
      [] OTHER   -> k

-----------------------------------------------------------------------------
(* Inputs of the model *)

PlayedNotes == {"C", "A"}    \* the notes played, by key or by mouse

\* data-note values of the on-screen keys that receive mouse/touch events
KeyElements == PlayedNotes

\* a data-note value outside the tuning table, of a key element that receives
\* 'mousedown' in the runs of StraySpec
UnknownNote == "H"

\* e.key values: the keys of the played notes, one of them with shift held,
\* and an unmapped key
PressedKeys == {"a", "H", "z"}

WaveformValues == {"sine", "square"}
BaseFrequencyValues == {26163, 44000}
VolumeValues == {505, 1000}     \* slider value in tenths: "50.5", "100"
AttackValues == {2}
ReleaseValues == {0}

Hosts == {"ok", "noAudioContext", "noAnalyser", "noGain"}

-----------------------------------------------------------------------------
(* The state as a record *)

St == [ audioContext |-> audioContext, analyser |-> analyser,
        masterGain |-> masterGain, activeOscillators |-> activeOscillators,
        nodes |-> nodes, waveform |-> waveform,
        baseFrequency |-> baseFrequency, volume |-> volume,
        attack |-> attack, release |-> release,
        rafPending |-> rafPending, animationId |-> animationId,
        controlEvents |-> controlEvents, canvas |-> canvas,
        clickOnce |-> clickOnce, keydownOnce |-> keydownOnce,
        created |-> created, thrown |-> thrown, host |-> host ]

Apply(s) ==
    /\ audioContext' = s.audioContext
    /\ analyser' = s.analyser
    /\ masterGain' = s.masterGain
    /\ activeOscillators' = s.activeOscillators
    /\ nodes' = s.nodes
    /\ waveform' = s.waveform
    /\ baseFrequency' = s.baseFrequency
    /\ volume' = s.volume
    /\ attack' = s.attack
    /\ release' = s.release
    /\ rafPending' = s.rafPending
    /\ animationId' = s.animationId
    /\ controlEvents' = s.controlEvents
    /\ canvas' = s.canvas
    /\ clickOnce' = s.clickOnce
    /\ keydownOnce' = s.keydownOnce
    /\ created' = s.created
    /\ thrown' = s.thrown
    /\ host' = s.host

\* activeOscillators[note]: 0 (falsy) when the object has no such property
Entry(s, note) ==
    IF note \in DOMAIN s.activeOscillators THEN s.activeOscillators[note] ELSE 0

\* Object.keys(activeOscillators)
ActiveKeys(s) == DOMAIN s.activeOscillators

\* delete activeOscillators[note]
DeleteKey(reg, note) == [ n \in (DOMAIN reg) \ {note} |-> reg[n] ]

\* an assignment that leaves the object with the one property it sets
SetKey_Evicting(reg, note, i) == [ n \in {note} |-> i ]

\* activeOscillators[note] = i
SetKey(reg, note, i) ==
    [ n \in (DOMAIN reg) \cup {note} |-> IF n = note THEN i ELSE reg[n] ]

EmptyObject == [ n \in {} |-> 0 ]

-----------------------------------------------------------------------------
(* The audio engine: gain automation and oscillator termination *)

NoStop == -1                \* no stop has been scheduled
DefaultFrequency == 440000000   \* frequency of a fresh OscillatorNode (440 Hz)

\* the gain stage of a pair whose createGain() was never reached
NoGainNode == [ setVal |-> 0, rampTo |-> 0, rampLen |-> 0, rampLeft |-> 0 ]

\* The automation setValueAtTime(v, currentTime) followed by
\* linearRampToValueAtTime(target, currentTime + d), as scheduled just now.
Ramp(v, target, d) ==
    [ setVal |-> v, rampTo |-> target, rampLen |-> d, rampLeft |-> d ]

\* Value of a gain under its automation now: rampLeft of the rampLen units of
\* the ramp are still to come.
GainValueNow(g) ==
    IF g.rampLeft = 0 THEN g.rampTo
    ELSE g.setVal + ((g.rampTo - g.setVal) * (g.rampLen - g.rampLeft)) \div g.rampLen

\* gainNode.gain.value as the control thread reads it: the value the audio
\* thread computed last.  For a pair made within this unit of the audio clock
\* the audio thread may have rendered a quantum since (rendered) or not: if
\* not, the value is still the default value of a fresh gain.
GainValueRead(n, rendered) ==
    IF n.fresh /\ ~rendered THEN DefaultGain ELSE GainValueNow(n.gain)

\* The oscillator has been stopped by the engine.
Ended(n) == n.stopIn = 0

\* The oscillator is generating.
Sounding(n) == n.started /\ ~Ended(n)

\* What is left of a pair the engine has discarded (an oscillator that has
\* ended, or one that was never started and that no one refers to): its place
\* in the order of creation, and whether it ever sounded.
Discarded(n) ==
    [ note |-> "none", type |-> "none", frequency |-> 0, gain |-> NoGainNode,
      connected |-> FALSE, started |-> n.started, fresh |-> FALSE,
      stopIn |-> IF n.started THEN 0 ELSE NoStop ]

\* One unit of the audio clock passes for a gain: a ramp that is over leaves
\* the gain at its target, with nothing scheduled.
AdvanceGain(g) ==
    IF g.rampLeft <= 1 THEN Ramp(g.rampTo, g.rampTo, 0)
    ELSE [ g EXCEPT !.rampLeft = @ - 1 ]

\* One unit of the audio clock passes for a pair.
Advance(n) ==
    IF Ended(n) \/ ~n.started THEN Discarded(n)
    ELSE [ n EXCEPT !.fresh = FALSE,
                    !.gain = AdvanceGain(@),
                    !.stopIn = IF @ > 0 THEN @ - 1 ELSE @ ]

-----------------------------------------------------------------------------
(* Rendering *)

\* draw() without its request for the next frame
Draw_NoRequest(s) == [ s EXCEPT !.canvas = "scope" ]

\* draw(): one render step; the handle requestAnimationFrame returns is 1,
\* whichever it is
Draw(s) ==
    [ s EXCEPT !.rafPending = @ + 1,
               !.animationId = 1,
               !.canvas = "scope" ]

\* the handle requestAnimationFrame returns after it returned id: another one
NextHandle(id) == IF id = 1 THEN 2 ELSE 1

\* draw() with the handles told apart: no two requests in a row return the
\* same one
DrawDistinct(s) == [ Draw(s) EXCEPT !.animationId = NextHandle(s.animationId) ]

\* drawOscilloscope()
drawOscilloscope(s) ==
    IF ~s.analyser
    THEN [ s EXCEPT !.thrown = "TypeError" ]
    ELSE Draw([ s EXCEPT !.created.loop = @ + 1 ])

-----------------------------------------------------------------------------
(* initAudio, playNote, stopNote *)

\* s when the code before has thrown, else what the next statement makes of it
OrThrow(s, t) == IF s.thrown # "none" THEN s ELSE t

\* line 65: new AudioContext()
NewContext(s) ==
    IF s.host = "noAudioContext" THEN [ s EXCEPT !.thrown = "TypeError" ]
    ELSE [ s EXCEPT !.audioContext = TRUE, !.created.context = @ + 1 ]

\* lines 68-69: the analyser
NewAnalyser(s) ==
    IF s.host = "noAnalyser" THEN [ s EXCEPT !.thrown = "TypeError" ]
    ELSE [ s EXCEPT !.analyser = TRUE, !.created.analyser = @ + 1 ]

\* the master gain left at the default value of a fresh gain
NewMasterGain_DefaultValue(s) ==
    IF s.host = "noGain" THEN [ s EXCEPT !.thrown = "TypeError" ]
    ELSE [ s EXCEPT !.masterGain = [node |-> TRUE, value |-> DefaultGain],
                    !.created.masterGain = @ + 1 ]

\* lines 72-75: the master gain, set to the volume and connected
NewMasterGain(s) ==
    IF s.host = "noGain" THEN [ s EXCEPT !.thrown = "TypeError" ]
    ELSE [ s EXCEPT !.masterGain = [node |-> TRUE, value |-> s.volume],
                    !.created.masterGain = @ + 1 ]

\* the body of initAudio without the master gain
CreateAudio_NoMasterGain(s) ==
    LET s1 == NewContext(s)
        s2 == OrThrow(s1, NewAnalyser(s1))
    IN  OrThrow(s2, drawOscilloscope(s2))

\* lines 65-78: the body of initAudio
CreateAudio(s) ==
    LET s1 == NewContext(s)
        s2 == OrThrow(s1, NewAnalyser(s1))
        s3 == OrThrow(s2, NewMasterGain(s2))
    IN  OrThrow(s3, drawOscilloscope(s3))

\* initAudio without its check for an existing context
initAudio_NoGuard(s) == CreateAudio(s)

initAudio(s) == IF s.audioContext THEN s ELSE CreateAudio(s)

\* the oscillator made by createOscillator() with its type set (lines 89-90)
NewOscillator(s, note) ==
    [ note |-> note, type |-> s.waveform, frequency |-> DefaultFrequency,
      gain |-> NoGainNode, connected |-> FALSE, started |-> FALSE,
      fresh |-> TRUE, stopIn |-> NoStop ]

\* the attack envelope with the attack time the page was loaded with
AttackEnvelope_InitialAttack(s) == Ramp(0, GainOne, 1)

\* the attack envelope scheduled on a new gain stage (lines 94-96)
AttackEnvelope(s) == Ramp(0, GainOne, s.attack)

\* the body of playNote with the reference stored (line 106) before the
\* pair is connected and started
StartVoice_StoreFirst(s, note) ==
    LET frequency == IF note \in DOMAIN noteMultipliers
                     THEN s.baseFrequency * noteMultipliers[note]
                     ELSE NaN
        i == Len(s.nodes) + 1
        osc == NewOscillator(s, note)
        Throw(n) == [ s EXCEPT !.nodes = Append(@, Discarded(n)),
                               !.thrown = "TypeError" ]
    IN  IF frequency = NaN THEN Throw(osc)
        ELSE LET o1 == [ osc EXCEPT !.frequency = frequency ]
             IN IF s.host = "noGain" THEN Throw(o1)
                ELSE LET o2 == [ o1 EXCEPT !.gain = AttackEnvelope(s) ]
                         stored == [ s EXCEPT
                                       !.nodes = Append(@, o2),
                                       !.activeOscillators = SetKey(@, note, i) ]
                     IN IF ~s.masterGain.node
                        THEN [ stored EXCEPT !.thrown = "TypeError" ]
                        ELSE [ stored EXCEPT !.nodes[i].connected = TRUE,
                                             !.nodes[i].started = TRUE ]

\* lines 86-106 of playNote: make the voice for note and record it
StartVoice(s, note) ==
    LET frequency == IF note \in DOMAIN noteMultipliers
                     THEN s.baseFrequency * noteMultipliers[note]
                     ELSE NaN
        i == Len(s.nodes) + 1
        osc == NewOscillator(s, note)
        \* an exception leaves the pair made so far behind, unreferenced
        Throw(n) == [ s EXCEPT !.nodes = Append(@, Discarded(n)),
                               !.thrown = "TypeError" ]
    IN  IF frequency = NaN THEN Throw(osc)
        ELSE LET o1 == [ osc EXCEPT !.frequency = frequency ]
             IN IF s.host = "noGain" THEN Throw(o1)
                ELSE LET o2 == [ o1 EXCEPT !.gain = AttackEnvelope(s) ]
                     IN IF ~s.masterGain.node THEN Throw(o2)
                        ELSE [ s EXCEPT
                                 !.nodes = Append(@,
                                    [ o2 EXCEPT !.connected = TRUE,
                                                !.started = TRUE ]),
                                 !.activeOscillators = SetKey(@, note, i) ]

\* playNote without its 'already playing' check
playNote_NoGuard(s, note) ==
    LET s0 == IF ~s.audioContext THEN initAudio(s) ELSE s
    IN  IF s0.thrown # "none" THEN s0 ELSE StartVoice(s0, note)

playNote(s, note) ==
    LET s0 == IF ~s.audioContext THEN initAudio(s) ELSE s
    IN  IF s0.thrown # "none" THEN s0
        ELSE IF Entry(s0, note) # 0 THEN s0
        ELSE StartVoice(s0, note)

\* the release envelope scheduled by stopNote (lines 120-122)
ReleaseEnvelope(s, n, rendered) ==
    Ramp(GainValueRead(n, rendered), 0, s.release)

\* stopNote without its check for a missing entry: destructuring the
\* undefined entry throws
stopNote_NoGuard(s, note, rendered) ==
    IF Entry(s, note) = 0 THEN [ s EXCEPT !.thrown = "TypeError" ]
    ELSE LET i == Entry(s, note)
         IN [ s EXCEPT
                !.nodes[i].gain = ReleaseEnvelope(s, s.nodes[i], rendered),
                !.nodes[i].stopIn = s.release,
                !.nodes[i].fresh = FALSE,
                !.activeOscillators = DeleteKey(@, note) ]

\* stopNote that leaves the entry in the registry
stopNote_NoDelete(s, note, rendered) ==
    IF Entry(s, note) = 0 THEN s
    ELSE LET i == Entry(s, note)
         IN [ s EXCEPT
                !.nodes[i].gain = ReleaseEnvelope(s, s.nodes[i], rendered),
                !.nodes[i].stopIn = s.release,
                !.nodes[i].fresh = FALSE ]

\* stopNote that puts the release envelope on the gain of every pair in the
\* registry
stopNote_EveryGain(s, note, rendered) ==
    IF Entry(s, note) = 0 THEN s
    ELSE LET i == Entry(s, note)
             released == [ j \in DOMAIN s.nodes |->
                             IF \E n \in DOMAIN s.activeOscillators :
                                   s.activeOscillators[n] = j
                             THEN [ s.nodes[j] EXCEPT
                                      !.gain = ReleaseEnvelope(s, s.nodes[j], rendered) ]
                             ELSE s.nodes[j] ]
         IN [ s EXCEPT
                !.nodes = [ released EXCEPT ![i].stopIn = s.release,
                                            ![i].fresh = FALSE ],
                !.activeOscillators = DeleteKey(@, note) ]

\* stopNote that schedules no stop of the oscillator
stopNote_NoStopScheduled(s, note, rendered) ==
    IF Entry(s, note) = 0 THEN s
    ELSE LET i == Entry(s, note)
         IN [ s EXCEPT
                !.nodes[i].gain = ReleaseEnvelope(s, s.nodes[i], rendered),
                !.nodes[i].fresh = FALSE,
                !.activeOscillators = DeleteKey(@, note) ]

stopNote(s, note, rendered) ==
    IF Entry(s, note) = 0 THEN s
    ELSE LET i == Entry(s, note)
         IN [ s EXCEPT
                !.nodes[i].gain = ReleaseEnvelope(s, s.nodes[i], rendered),
                !.nodes[i].stopIn = s.release,
                !.nodes[i].fresh = FALSE,
                !.activeOscillators = DeleteKey(@, note) ]


-----------------------------------------------------------------------------
(* Handlers *)

\* the state a handler starts from: nothing thrown yet
Begin == [ St EXCEPT !.thrown = "none" ]

\* the state a control's listener starts from
BeginControl == [ Begin EXCEPT !.controlEvents = @ + 1 ]

\* the user events of a run create at most MaxNodes oscillators
InWindow(s) == Len(s.nodes) <= MaxNodes

\* parseInt of a slider value given in tenths
ParseInt(v) == v \div 10

\* the 'keydown' listener of line 308
KeydownListener(s, key, repeat) ==
    IF repeat THEN s
    ELSE LET k == ToLowerCase(key)
         IN IF k \in DOMAIN keyToNote THEN playNote(s, keyToNote[k]) ELSE s

\* a once-listener running initAudio: it is removed before it runs
\* (an exception of a listener that ran before it does not keep it from
\* running, and stays reported)
OnceInitAudio(s, field) ==
    LET Run(t) == LET u == initAudio([ t EXCEPT !.thrown = "none" ])
                  IN IF s.thrown # "none" THEN [ u EXCEPT !.thrown = s.thrown ]
                     ELSE u
    IN  IF field = "click"
        THEN IF s.clickOnce THEN Run([ s EXCEPT !.clickOnce = FALSE ]) ELSE s
        ELSE IF s.keydownOnce THEN Run([ s EXCEPT !.keydownOnce = FALSE ]) ELSE s

ClickResult == OnceInitAudio(Begin, "click")

Click == InWindow(St) /\ Apply(ClickResult)

\* 'keydown': the listener of line 308, then the once-listener of line 359
KeyDownResult(key, repeat) ==
    OnceInitAudio(KeydownListener(Begin, key, repeat), "keydown")

KeyDownOf(key, repeat) ==
    LET s == KeyDownResult(key, repeat) IN InWindow(s) /\ Apply(s)

KeyDown == \E key \in PressedKeys, repeat \in BOOLEAN : KeyDownOf(key, repeat)

\* Whether the audio thread has rendered a quantum since the newest pair was
\* made, as a note-off may find it: it has when no pair in the registry was
\* made within this unit of the audio clock.
Rendered ==
    IF \E i \in DOMAIN nodes : nodes[i].fresh THEN BOOLEAN ELSE {TRUE}

\* 'keyup': the listener of line 316
KeyUpResult(key, rendered) ==
    LET k == ToLowerCase(key)
    IN IF k \in DOMAIN keyToNote
       THEN stopNote(Begin, keyToNote[k], rendered)
       ELSE Begin

KeyUpOf(key, rendered) == InWindow(St) /\ Apply(KeyUpResult(key, rendered))

KeyUp == \E key \in PressedKeys, rendered \in Rendered : KeyUpOf(key, rendered)

\* 'mousedown' on the on-screen key of note ('touchstart' runs the same code)
MouseDownResult(note) == playNote(Begin, note)

MouseDownOn(note) ==
    LET s == MouseDownResult(note) IN InWindow(s) /\ Apply(s)

MouseDown == \E note \in KeyElements : MouseDownOn(note)

\* 'mouseup' on the on-screen key of note ('touchend' runs the same code)
MouseUpResult(note, rendered) == stopNote(Begin, note, rendered)

MouseUpOn(note, rendered) == InWindow(St) /\ Apply(MouseUpResult(note, rendered))

MouseUp ==
    \E note \in KeyElements, rendered \in Rendered : MouseUpOn(note, rendered)

\* 'mouseleave' on the on-screen key of note
MouseLeaveResult(note, rendered) == stopNote(Begin, note, rendered)

MouseLeaveOn(note, rendered) ==
    InWindow(St) /\ Apply(MouseLeaveResult(note, rendered))

MouseLeave ==
    \E note \in KeyElements, rendered \in Rendered : MouseLeaveOn(note, rendered)

\* the pair stored under some key of activeOscillators
Registered(s, i) == \E n \in ActiveKeys(s) : s.activeOscillators[n] = i

\* the waveform listener without its update of the active oscillators
WaveformListener_SettingOnly(s, value) == [ s EXCEPT !.waveform = value ]

\* the 'change' listener of the waveform select
WaveformListener(s, value) ==
    [ s EXCEPT !.waveform = value,
               !.nodes = [ i \in DOMAIN s.nodes |->
                             IF Registered(s, i)
                             THEN [ s.nodes[i] EXCEPT !.type = value ]
                             ELSE s.nodes[i] ] ]

\* the base frequency listener without its update of the active oscillators
BaseFrequencyListener_SettingOnly(s, value) ==
    [ s EXCEPT !.baseFrequency = value ]

\* the 'input' listener of the base frequency slider
BaseFrequencyListener(s, value) ==
    [ s EXCEPT !.baseFrequency = value,
               !.nodes = [ i \in DOMAIN s.nodes |->
                             IF Registered(s, i)
                             THEN [ s.nodes[i] EXCEPT !.frequency =
                                      value * noteMultipliers[s.nodes[i].note] ]
                             ELSE s.nodes[i] ] ]

\* the 'input' listener of the volume slider
VolumeListener(s, value) ==
    LET v == ParseInt(value)
    IN [ s EXCEPT !.volume = v,
                  !.masterGain = IF @.node THEN [ @ EXCEPT !.value = v ] ELSE @ ]

AttackListener(s, value) == [ s EXCEPT !.attack = value ]

ReleaseListener(s, value) == [ s EXCEPT !.release = value ]

WaveformChangeTo(value) ==
    /\ controlEvents < MaxControlEvents
    /\ Apply(WaveformListener(BeginControl, value))

WaveformChange == \E value \in WaveformValues : WaveformChangeTo(value)

BaseFrequencyChangeTo(value) ==
    /\ controlEvents < MaxControlEvents
    /\ Apply(BaseFrequencyListener(BeginControl, value))

BaseFrequencyChange == \E value \in BaseFrequencyValues : BaseFrequencyChangeTo(value)

VolumeChangeTo(value) ==
    /\ controlEvents < MaxControlEvents
    /\ Apply(VolumeListener(BeginControl, value))

VolumeChange == \E value \in VolumeValues : VolumeChangeTo(value)

AttackChangeTo(value) ==
    /\ controlEvents < MaxControlEvents
    /\ Apply(AttackListener(BeginControl, value))

AttackChange == \E value \in AttackValues : AttackChangeTo(value)

ReleaseChangeTo(value) ==
    /\ controlEvents < MaxControlEvents
    /\ Apply(ReleaseListener(BeginControl, value))

ReleaseChange == \E value \in ReleaseValues : ReleaseChangeTo(value)

\* the frame timer runs a pending draw callback
Frame ==
    /\ rafPending > 0
    /\ Apply(Draw([ Begin EXCEPT !.rafPending = @ - 1 ]))

\* the same, with the handles told apart
FrameDistinct ==
    /\ rafPending > 0
    /\ Apply(DrawDistinct([ Begin EXCEPT !.rafPending = @ - 1 ]))

\* the audio clock advances by one unit
Tick ==
    /\ audioContext
    /\ LET s == [ St EXCEPT !.nodes = [ i \in DOMAIN @ |-> Advance(@[i]) ] ]
       IN s # St /\ Apply(s)

-----------------------------------------------------------------------------
(* Specification *)

InitOn(h) ==
    /\ audioContext = FALSE
    /\ analyser = FALSE
    /\ masterGain = [node |-> FALSE, value |-> 0]
    /\ activeOscillators = EmptyObject
    /\ nodes = << >>
    /\ waveform = "sine"
    /\ baseFrequency = 26163
    /\ volume = 50
    /\ attack = 1
    /\ release = 3
    /\ rafPending = 0
    /\ animationId = 0
    /\ controlEvents = 0
    /\ canvas = "idle"
    /\ clickOnce = TRUE
    /\ keydownOnce = TRUE
    /\ created = [context |-> 0, analyser |-> 0, masterGain |-> 0, loop |-> 0]
    /\ thrown = "none"
    /\ host = h

\* the page as loaded in its host, which provides Web Audio
Init == InitOn("ok")

\* the page as loaded in a host that may lack a part of Web Audio
FaultInit == \E h \in Hosts : InitOn(h)

Next ==
    \/ Click
    \/ KeyDown
    \/ KeyUp
    \/ MouseDown
    \/ MouseUp
    \/ MouseLeave
    \/ WaveformChange
    \/ BaseFrequencyChange
    \/ VolumeChange
    \/ AttackChange
    \/ ReleaseChange
    \/ Frame
    \/ Tick

Spec == Init /\ [][Next]_vars

\* The runs that play one key, by keyboard and by mouse, with the handles of
\* the frame requests told apart, so that every render step is a step.
LiveNext ==
    \/ Click
    \/ KeyDownOf("a", FALSE)
    \/ KeyDownOf("a", TRUE)
    \/ KeyDownOf("z", FALSE)
    \/ \E rendered \in Rendered : KeyUpOf("a", rendered)
    \/ MouseDownOn("C")
    \/ \E rendered \in Rendered : MouseUpOn("C", rendered)
    \/ \E rendered \in Rendered : MouseLeaveOn("C", rendered)
    \/ WaveformChange
    \/ BaseFrequencyChange
    \/ VolumeChange
    \/ AttackChange
    \/ ReleaseChange
    \/ FrameDistinct
    \/ Tick

\* the frame timer keeps firing
LiveSpec == Init /\ [][LiveNext]_vars /\ WF_vars(FrameDistinct)

\* any host
FaultSpec == FaultInit /\ [][Next]_vars

\* The runs in which a key element whose data-note is not in the tuning table
\* receives 'mousedown' too.
StrayNext ==
    \/ Next
    \/ MouseDownOn(UnknownNote)

StraySpec == Init /\ [][StrayNext]_vars

\* The runs that play one key, by keyboard and by mouse, and change the
\* envelope settings, while the audio clock keeps advancing.
ClockNext ==
    \/ Click
    \/ KeyDownOf("a", FALSE)
    \/ \E rendered \in Rendered : KeyUpOf("a", rendered)
    \/ MouseDownOn("C")
    \/ \E rendered \in Rendered : MouseUpOn("C", rendered)
    \/ \E rendered \in Rendered : MouseLeaveOn("C", rendered)
    \/ AttackChange
    \/ ReleaseChange
    \/ Frame
    \/ Tick

\* the audio clock keeps advancing
ClockSpec == Init /\ [][ClockNext]_vars /\ WF_vars(Tick)

\* the place of a note on the keyboard, from the left
NoteIndex(n) == CHOOSE i \in 1..Len(NoteOrder) : NoteOrder[i] = n

\* A sweep over the on-screen keyboard with the button held and never
\* released over a key: the first key is any key, every further 'mousedown'
\* ('touchstart') is on a key next to the one that made the last voice.
SweepOn(note) ==
    /\ IF nodes = << >> THEN TRUE
       ELSE NoteIndex(note) - NoteIndex(nodes[Len(nodes)].note) \in {-1, 1}
    /\ Apply(MouseDownResult(note))

Sweep == \E note \in Notes : SweepOn(note)

\* The runs without a note-off: sweeps over the whole keyboard, the base
\* frequency changing meanwhile.
PolyNext ==
    \/ Sweep
    \/ BaseFrequencyChange
    \/ Frame
    \/ Tick

PolySpec == Init /\ [][PolyNext]_vars

-----------------------------------------------------------------------------
(* State functions the properties speak about *)

\* the keys of the keyboard that play note n
KeysOf(n) ==
    { key \in PressedKeys :
        /\ ToLowerCase(key) \in DOMAIN keyToNote
        /\ keyToNote[ToLowerCase(key)] = n }

\* the states the note-on events for n lead to from here: playNote(n) is called
NoteOnResults(n) ==
    {MouseDownResult(n)} \cup { KeyDownResult(key, FALSE) : key \in KeysOf(n) }

\* the states the note-off events for n lead to from here: stopNote(n) is called
NoteOffResults(n) ==
    UNION { {MouseUpResult(n, rendered), MouseLeaveResult(n, rendered)}
               \cup { KeyUpResult(key, rendered) : key \in KeysOf(n) } :
            rendered \in Rendered }

\* the pairs of note n that have been started and have had no note-off
Held(n) ==
    { i \in 1..Len(nodes) :
        nodes[i].note = n /\ nodes[i].started /\ nodes[i].stopIn = NoStop }

\* the pairs of note n whose oscillator is generating
Live(n) == { i \in 1..Len(nodes) : nodes[i].note = n /\ Sounding(nodes[i]) }

\* the render loop has been started
LoopStarted == created.loop > 0

-----------------------------------------------------------------------------
(* Properties *)

\* C1: from every reachable state, a note-on for a note that is already in
\* the registry creates no oscillator and no gain stage and leaves the
\* registry as it was: the one entry of the note is the entry it had before.
C1_NoteOnIdempotent ==
    \A n \in KeyElements :
        Entry(St, n) # 0
           => \A r \in NoteOnResults(n) :
                 /\ r.nodes = nodes
                 /\ r.activeOscillators = activeOscillators

\* C1 witness: a note is held and sounding, so that a second note-on for it
\* finds its entry.
C1_Witness ==
    /\ Entry(St, "C") # 0
    /\ Sounding(nodes[Entry(St, "C")])
    /\ Held("C") = {Entry(St, "C")}
    /\ MouseDownResult("C").nodes = nodes

\* C2: from every reachable state, a note-off for a note that is not in the
\* registry changes nothing: not the registry, no pair's envelope or scheduled
\* stop, no setting, not the Idle/Live state; and it throws nothing.
C2_NoteOffInactiveNoOp ==
    \A n \in KeyElements :
        Entry(St, n) = 0 => \A r \in NoteOffResults(n) : r = Begin

\* C2 witness: C has had its note-off and still sounds in its release tail,
\* another note is held, and a further note-off for C changes nothing.
C2_Witness ==
    /\ Entry(St, "C") = 0
    /\ Entry(St, "A") # 0
    /\ \E i \in Live("C") : nodes[i].stopIn > 0
    /\ MouseLeaveResult("C", FALSE) = Begin

\* C3: right after a note-on for a defined note the note is in the registry;
\* right after the note-off that follows it is not, while its oscillator is
\* to stop only `release` later and sounds until then.
C3_LogicalLiveness ==
    \A n \in PlayedNotes :
        /\ \A r \in NoteOnResults(n) : Entry(r, n) # 0
        /\ Entry(St, n) # 0
              => \A r \in NoteOffResults(n) :
                    /\ Entry(r, n) = 0
                    /\ r.nodes[Entry(St, n)].stopIn = release
                    /\ release > 0 => Sounding(r.nodes[Entry(St, n)])

\* C3 witness: a note that has left the registry while its oscillator sounds.
C3_Witness ==
    /\ Entry(St, "A") = 0
    /\ \E i \in Live("A") : nodes[i].stopIn = 3

\* C4 as claimed: at most one pair per note whose oscillator has not ended.
C4_OneLivePerNote == \A n \in KeyElements : Cardinality(Live(n)) <= 1

\* C4, amended: at most one pair per note has been started and has had no
\* note-off, and it is the one in the registry; pairs in their release tail
\* may sound beside it.
C4_OneHeldPerNote ==
    \A n \in KeyElements :
        Held(n) = IF Entry(St, n) # 0 THEN {Entry(St, n)} ELSE {}

\* C4 witness: a note pressed again before its release tail has elapsed.
C4_Witness ==
    \E n \in PlayedNotes :
        /\ Entry(St, n) # 0
        /\ \E i \in Live(n) : i # Entry(St, n) /\ nodes[i].stopIn > 0

\* C5: the Idle->Live transition happens once and for all: whatever triggers
\* fire, one audio context, one analyser, one master gain and one render loop
\* are made at most, and audioContext, once set, stays set.
C5_InitOnce ==
    /\ created.context <= 1
    /\ created.analyser <= 1
    /\ created.masterGain <= 1
    /\ created.loop <= 1
    /\ rafPending <= 1
    /\ audioContext <=> created.context = 1

\* C5 witness: Live, after a note-on and both once-listeners have fired.
C5_Witness ==
    /\ audioContext
    /\ ~clickOnce /\ ~keydownOnce
    /\ Len(nodes) >= 1
    /\ created = [context |-> 1, analyser |-> 1, masterGain |-> 1, loop |-> 1]

\* C6: whenever a render step has run or a frame callback is pending, the
\* analyser and the master gain exist; in the Idle state the canvas shows the
\* idle drawing and no frame is requested.
C6_RenderOnlyWhenLive ==
    /\ (rafPending > 0 \/ canvas = "scope" \/ LoopStarted)
          => analyser /\ masterGain.node
    /\ ~audioContext => canvas = "idle" /\ rafPending = 0 /\ animationId = 0

\* C6 witness: Live with a frame callback pending after a render step, the
\* once-listeners still waiting: a note-on made the transition.
C6_Witness ==
    /\ rafPending = 1 /\ animationId = 1 /\ canvas = "scope"
    /\ analyser /\ masterGain.node
    /\ clickOnce /\ keydownOnce

\* C7: once the loop is started one frame callback is pending at all times
\* (every render step requests the next one, and no note or control event
\* cancels it), and under fairness of the frame timer render steps recur for
\* ever, whatever the registry holds.
C7_RenderLoopForever ==
    /\ [][ LoopStarted' => rafPending' = 1 ]_vars
    /\ [](LoopStarted => []<>(animationId = 1))
    /\ [](LoopStarted => []<>(animationId = 2))

\* C7 witness: the loop runs with an empty registry after a note was played.
C7_Witness ==
    /\ LoopStarted /\ animationId = 2 /\ rafPending = 1
    /\ Len(nodes) >= 1
    /\ DOMAIN activeOscillators = {}

\* C8: every voice in the registry sounds at baseFrequency times the
\* multiplier of its note, and from every reachable state a change of the
\* base frequency creates, removes and restarts no voice and leaves every
\* envelope and scheduled stop alone.
C8_HeldNotesTrackBase ==
    /\ \A n \in DOMAIN activeOscillators :
          nodes[activeOscillators[n]].frequency
             = baseFrequency * noteMultipliers[n]
    /\ \A value \in BaseFrequencyValues :
          LET r == BaseFrequencyListener(BeginControl, value)
          IN /\ r.activeOscillators = activeOscillators
             /\ Len(r.nodes) = Len(nodes)
             /\ \A i \in 1..Len(nodes) :
                   r.nodes[i] = [ nodes[i] EXCEPT
                                    !.frequency = r.nodes[i].frequency ]

\* C8 witness: a held note, started before the audio clock last moved, at the
\* new base frequency, next to a released one that keeps the old.
C8_Witness ==
    /\ baseFrequency = 44000
    /\ Entry(St, "A") # 0
    /\ nodes[Entry(St, "A")].frequency = 44000 * noteMultipliers["A"]
    /\ ~nodes[Entry(St, "A")].fresh
    /\ \E i \in Live("C") : nodes[i].frequency = 26163 * noteMultipliers["C"]

\* C9: every voice in the registry has the current waveform, and from every
\* reachable state a change of the waveform leaves the registry, the
\* frequencies and the envelopes alone.
C9_HeldNotesTrackWaveform ==
    /\ \A n \in DOMAIN activeOscillators :
          nodes[activeOscillators[n]].type = waveform
    /\ \A value \in WaveformValues :
          LET r == WaveformListener(BeginControl, value)
          IN /\ r.activeOscillators = activeOscillators
             /\ Len(r.nodes) = Len(nodes)
             /\ \A i \in 1..Len(nodes) :
                   r.nodes[i] = [ nodes[i] EXCEPT !.type = r.nodes[i].type ]

\* C9 witness: a held note, started before the audio clock last moved, with
\* the new waveform, next to a released one that keeps the old.
C9_Witness ==
    /\ waveform = "square"
    /\ Entry(St, "A") # 0
    /\ nodes[Entry(St, "A")].type = "square"
    /\ ~nodes[Entry(St, "A")].fresh
    /\ \E i \in Live("C") : nodes[i].type = "sine"

\* C10: in every Live state the master gain is the volume, also when the
\* volume was changed while Idle; from every reachable state a volume change
\* sets the volume and, when Live, the master gain to the new level and
\* leaves every pair and the registry alone.
C10_VolumeOnMasterOnly ==
    /\ masterGain.node => masterGain.value = volume
    /\ \A value \in VolumeValues :
          LET r == VolumeListener(BeginControl, value)
          IN /\ r.volume = ParseInt(value)
             /\ r.masterGain.node = masterGain.node
             /\ masterGain.node => r.masterGain.value = ParseInt(value)
             /\ r.nodes = nodes
             /\ r.activeOscillators = activeOscillators

\* C10 witness: the volume was changed while Idle, and the transition to
\* Live that a note-on makes from here sets the master gain to it.
C10_Witness ==
    /\ ~audioContext /\ ~masterGain.node
    /\ volume = 100
    /\ MouseDownResult("C").masterGain = [node |-> TRUE, value |-> 100]

\* the state a note-on for a defined note n leaves behind gave n a new voice
Voiced(r, n) == Entry(r, n) # 0 /\ Entry(r, n) = Len(nodes) + 1

\* C11: from every reachable state, an attack or release change sets the
\* setting and leaves the registry and every pair (its ramp, its stop time)
\* as they were; a note-on that makes a voice gives it an attack ramp as long
\* as the attack set now, and a note-off gives its voice a release ramp and a
\* stop time as long as the release set now.
C11_EnvelopeSettingsOnly ==
    /\ \A value \in AttackValues :
          LET r == AttackListener(BeginControl, value)
          IN /\ r.attack = value /\ r.release = release
             /\ r.nodes = nodes
             /\ r.activeOscillators = activeOscillators
    /\ \A value \in ReleaseValues :
          LET r == ReleaseListener(BeginControl, value)
          IN /\ r.release = value /\ r.attack = attack
             /\ r.nodes = nodes
             /\ r.activeOscillators = activeOscillators
    /\ \A n \in PlayedNotes :
          /\ \A r \in NoteOnResults(n) :
                Voiced(r, n)
                   => /\ r.nodes[Entry(r, n)].gain.rampLen = attack
                      /\ r.nodes[Entry(r, n)].gain.rampLeft = attack
                      /\ r.nodes[Entry(r, n)].stopIn = NoStop
          /\ Entry(St, n) # 0
                => \A r \in NoteOffResults(n) :
                      /\ r.nodes[Entry(St, n)].gain.rampLen = release
                      /\ r.nodes[Entry(St, n)].gain.rampLeft = release
                      /\ r.nodes[Entry(St, n)].stopIn = release

\* C11 witness: the attack was changed while a release tail scheduled before
\* was in flight, which keeps its length, and the voice started after the
\* change has the new attack.
C11_Witness ==
    /\ attack = 2
    /\ Entry(St, "C") # 0
    /\ nodes[Entry(St, "C")].gain.rampLen = 2
    /\ \E i \in Live("C") :
          /\ nodes[i].stopIn > 0
          /\ nodes[i].gain.rampLen = 3
          /\ nodes[i].gain.rampTo = 0

\* C12: from every reachable state, a note-off for n changes, of all pairs,
\* only the gain automation and the stop time of the pair n has in the
\* registry: every other pair, held or in its release tail, keeps its
\* envelope, stop time, frequency and waveform, every other note keeps its
\* registry entry, and the render loop keeps its pending frame.
C12_StopIsolated ==
    \A n \in KeyElements :
        \A r \in NoteOffResults(n) :
            /\ Len(r.nodes) = Len(nodes)
            /\ \A i \in 1..Len(nodes) :
                  IF i = Entry(St, n)
                  THEN r.nodes[i] = [ nodes[i] EXCEPT
                                        !.gain = r.nodes[i].gain,
                                        !.stopIn = r.nodes[i].stopIn,
                                        !.fresh = FALSE ]
                  ELSE r.nodes[i] = nodes[i]
            /\ \A m \in KeyElements \ {n} : Entry(r, m) = Entry(St, m)
            /\ r.rafPending = rafPending
            /\ r.animationId = animationId
            /\ r.canvas = canvas
            /\ r.created = created

\* C12 witness: two notes are held, one of them still in its attack ramp, the
\* render loop runs, and the note-off for the other leaves it alone.
C12_Witness ==
    /\ Entry(St, "C") # 0 /\ Entry(St, "A") # 0
    /\ nodes[Entry(St, "A")].gain.rampLeft > 0
    /\ ~nodes[Entry(St, "C")].fresh
    /\ rafPending = 1
    /\ Entry(MouseUpResult("C", TRUE), "C") = 0
    /\ Entry(MouseUpResult("C", TRUE), "A") = Entry(St, "A")
    /\ MouseUpResult("C", TRUE).nodes[Entry(St, "C")] # nodes[Entry(St, "C")]

\* C13 as claimed: from every reachable state, a note-on for an identifier
\* outside the tuning table is rejected (an error reaches the caller, under
\* whatever name), creates no oscillator and no gain stage, records no
\* registry entry, gives no oscillator a NaN frequency, and leaves the audio
\* engine and the renderer as they were.
C13_UnknownNoteRejected ==
    \A r \in NoteOnResults(UnknownNote) :
        /\ r.thrown # "none"
        /\ r.nodes = nodes
        /\ r.activeOscillators = activeOscillators
        /\ \A i \in 1..Len(r.nodes) : r.nodes[i].frequency # NaN
        /\ r.audioContext = audioContext
        /\ r.analyser = analyser
        /\ r.masterGain = masterGain
        /\ r.created = created
        /\ r.rafPending = rafPending
        /\ r.animationId = animationId
        /\ r.canvas = canvas

\* the notes a voice was made for
NotesPlayed == { nodes[i].note : i \in 1..Len(nodes) }

\* C14: in the runs without a note-off, the registry holds one voice for
\* every note that was played, as many voices as notes, each at
\* baseFrequency times the multiplier of its note, no two at the same
\* frequency; and a note-on for any further defined note adds its voice and
\* leaves the entry and the pair of every other note as they were.
C14_DistinctNotesDistinctVoices ==
    /\ DOMAIN activeOscillators = NotesPlayed
    /\ Cardinality(DOMAIN activeOscillators) = Len(nodes)
    /\ \A n \in DOMAIN activeOscillators :
          /\ nodes[activeOscillators[n]].note = n
          /\ nodes[activeOscillators[n]].frequency
                = baseFrequency * noteMultipliers[n]
          /\ Sounding(nodes[activeOscillators[n]])
    /\ \A m, n \in DOMAIN activeOscillators :
          m # n => /\ activeOscillators[m] # activeOscillators[n]
                   /\ nodes[activeOscillators[m]].frequency
                         # nodes[activeOscillators[n]].frequency
    /\ \A n \in Notes \ DOMAIN activeOscillators :
          LET r == MouseDownResult(n)
          IN /\ DOMAIN r.activeOscillators = DOMAIN activeOscillators \cup {n}
             /\ \A m \in DOMAIN activeOscillators :
                   /\ r.activeOscillators[m] = activeOscillators[m]
                   /\ r.nodes[activeOscillators[m]] = nodes[activeOscillators[m]]

\* C14 witness: all 17 notes are held, at a base frequency set during the
\* sweep.
C14_Witness ==
    /\ Cardinality(DOMAIN activeOscillators) = 17
    /\ DOMAIN activeOscillators = Notes
    /\ baseFrequency = 44000
    /\ \E i \in 1..Len(nodes) : nodes[i].gain.rampLeft > 0
    /\ \E i \in 1..Len(nodes) : ~nodes[i].fresh

\* the semitone offset of a note from the root
Semitones(n) == NoteIndex(n) - 1

\* C15: the tuning table has a multiplier for each of the 17 notes and for
\* nothing else, a note further from the root by semitones has the larger
\* multiplier, and the multiplier of the root is 1; so the voices held in a
\* sweep over the keyboard are ordered in frequency as their notes are on the
\* keyboard, and the voice of the root sounds at the base frequency.
C15_TuningMonotone ==
    /\ DOMAIN noteMultipliers = Notes
    /\ Cardinality(DOMAIN noteMultipliers) = 17
    /\ \A m, n \in Notes :
          Semitones(m) < Semitones(n) => noteMultipliers[m] < noteMultipliers[n]
    /\ Semitones("C") = 0
    /\ noteMultipliers["C"] = MultScale
    /\ \A m, n \in DOMAIN activeOscillators :
          Semitones(m) < Semitones(n)
             => nodes[activeOscillators[m]].frequency
                   < nodes[activeOscillators[n]].frequency
    /\ "C" \in DOMAIN activeOscillators
          => nodes[activeOscillators["C"]].frequency = baseFrequency * MultScale

\* C15 witness: the whole keyboard is held at the base frequency the page
\* loads with, the root at 261.63 Hz and the C above it at twice that.
C15_Witness ==
    /\ DOMAIN activeOscillators = Notes
    /\ baseFrequency = 26163
    /\ nodes[activeOscillators["C"]].frequency = 26163 * MultScale
    /\ nodes[activeOscillators["C5"]].frequency = 2 * 26163 * MultScale
    /\ nodes[activeOscillators["E5"]].frequency > nodes[activeOscillators["D#5"]].frequency

\* a and b differ by d at most
Within(a, b, d) == a - b <= d /\ b - a <= d

\* C16 as claimed: at the base frequency 261.63 Hz the multiplier of "A" is
\* 1.4983 to four decimals, and a note-on that makes the voice of "A" gives
\* it 392.00 Hz to two decimals.
C16_NoteAAt392 ==
    baseFrequency = 26163
       => /\ Within(noteMultipliers["A"], 14983, 1)
          /\ \A r \in NoteOnResults("A") :
                Voiced(r, "A")
                   => Within(r.nodes[Entry(r, "A")].frequency, 392000000, 10000)

\* C16, amended: at the base frequency 261.63 Hz the multiplier of "A",
\* 2^(9/12), is 1.6818 to four decimals, and a note-on that makes the voice
\* of "A" gives it 440.01 Hz to two decimals.
C16_NoteAAt440 ==
    baseFrequency = 26163
       => /\ Within(noteMultipliers["A"], 16818, 1)
          /\ \A r \in NoteOnResults("A") :
                Voiced(r, "A")
                   => Within(r.nodes[Entry(r, "A")].frequency, 440010000, 10000)

\* C16 witness: "A" is held at the base frequency 261.63 Hz, nine semitones
\* above a root that is held too.
C16_Witness ==
    /\ baseFrequency = 26163
    /\ Entry(St, "A") # 0 /\ Entry(St, "C") # 0
    /\ Semitones("A") = 9
    /\ nodes[Entry(St, "A")].frequency = 26163 * Pow2(9)
    /\ nodes[Entry(St, "C")].frequency = 26163 * MultScale

\* the states the triggers of the Idle->Live transition lead to from here
InitTriggerResults ==
    {ClickResult}
        \cup { KeyDownResult(key, FALSE) : key \in PressedKeys }
        \cup { MouseDownResult(n) : n \in PlayedNotes }

\* the Idle->Live transition is complete
FullyLive(s) ==
    s.audioContext /\ s.analyser /\ s.masterGain.node /\ s.created.loop > 0

\* C17 as claimed: in any host, a trigger that runs initAudio either
\* completes the Idle->Live transition or has the failure reach its caller,
\* and no state is left with the audio context set and the analyser, the
\* master gain or the render loop missing, from which initAudio returns at
\* once and never completes the transition.
C17_InitFailureSurfaced ==
    /\ audioContext => FullyLive(St)
    /\ ~audioContext
          => \A r \in InitTriggerResults :
                r.audioContext # audioContext \/ r.created # created
                \/ r.thrown # "none"
                   => FullyLive(r) \/ (r.thrown # "none" /\ ~r.audioContext)

\* the pairs that have had their note-off and whose oscillator has not ended
Tails == { i \in 1..Len(nodes) : nodes[i].started /\ nodes[i].stopIn > 0 }

\* C18 as claimed: from every reachable state, a note-off for a held note
\* replaces the automation of its gain by one that is anchored at the value
\* the gain has now and ramps to 0 over the release, and schedules the stop
\* of its oscillator for the end of that ramp, so that the gain does not
\* rise at the note-off; with release 0 the gain is 0 and the oscillator
\* stopped at once; and in every release tail the gain falls and is at 0 no
\* later than the oscillator ends.
C18_ReleaseEnvelopeOrdering ==
    /\ \A n \in PlayedNotes :
          Entry(St, n) # 0
             => \A r \in NoteOffResults(n) :
                   LET before == nodes[Entry(St, n)].gain
                       after == r.nodes[Entry(St, n)].gain
                   IN /\ after.setVal = GainValueNow(before)
                      /\ after.rampTo = 0
                      /\ after.rampLen = release
                      /\ after.rampLeft = r.nodes[Entry(St, n)].stopIn
                      /\ r.nodes[Entry(St, n)].stopIn = release
                      /\ GainValueNow(after) <= GainValueNow(before)
                      /\ release = 0 => GainValueNow(after) = 0
    /\ \A i \in Tails :
          /\ nodes[i].gain.rampTo <= nodes[i].gain.setVal
          /\ nodes[i].gain.rampTo = 0
          /\ nodes[i].gain.rampLeft <= nodes[i].stopIn

\* C19: in any host, whenever the registry holds a voice the audio context,
\* the master gain and the analyser exist and the voice is connected and
\* started; and a note-on for a defined note that arrives while Idle either
\* makes the Idle->Live transition before it makes its voice or makes no
\* voice.
C19_VoicesOnlyWhenLive ==
    /\ DOMAIN activeOscillators # {}
          => audioContext /\ masterGain.node /\ analyser
    /\ \A n \in DOMAIN activeOscillators :
          /\ nodes[activeOscillators[n]].connected
          /\ nodes[activeOscillators[n]].started
    /\ ~audioContext
          => \A n \in PlayedNotes :
                \A r \in NoteOnResults(n) :
                    IF FullyLive(r) THEN Voiced(r, n)
                    ELSE DOMAIN r.activeOscillators = {}

\* C19 witness: a voice is held in a state that became Live by its note-on:
\* the once-listeners have not fired.
C19_Witness ==
    /\ DOMAIN activeOscillators = {"A"}
    /\ clickOnce /\ keydownOnce
    /\ FullyLive(St)
    /\ Len(nodes) = 1

\* the pair at place i is stored in the registry
InRegistry(i) == \E n \in DOMAIN activeOscillators : activeOscillators[n] = i

\* C20: every oscillator that has been started is in the registry, with no
\* stop scheduled, or has a stop scheduled that is no further away than the
\* release of its note-off; a stop is scheduled only by the note-off that
\* takes the pair out of the registry, at the release set then, and is never
\* put off; and as the audio clock advances every oscillator that is out of
\* the registry ends.
C20_NoOrphanedOscillator ==
    /\ [](\A i \in DOMAIN nodes :
             nodes[i].started
                => IF InRegistry(i)
                   THEN nodes[i].stopIn = NoStop /\ Sounding(nodes[i])
                   ELSE /\ nodes[i].stopIn # NoStop
                        /\ nodes[i].stopIn <= nodes[i].gain.rampLen)
    /\ [][\A i \in DOMAIN nodes :
             /\ nodes[i].stopIn = NoStop /\ nodes'[i].stopIn # NoStop
                   => /\ InRegistry(i) /\ ~InRegistry(i)'
                      /\ nodes'[i].stopIn = release
             /\ nodes[i].stopIn # NoStop
                   => nodes'[i].stopIn # NoStop
                      /\ nodes'[i].stopIn <= nodes[i].stopIn]_vars
    /\ \A i \in 1..MaxNodes :
          (i \in DOMAIN nodes /\ nodes[i].started /\ ~InRegistry(i))
             ~> (i \in DOMAIN nodes /\ Ended(nodes[i]))

\* C20 witness: an oscillator has ended after its release tail, and a later
\* one of the same note, out of the registry too, is still in its tail.
C20_Witness ==
    /\ Len(nodes) = 2
    /\ nodes[1].started /\ Ended(nodes[1]) /\ ~InRegistry(1)
    /\ 2 \in Tails /\ ~InRegistry(2)
    /\ nodes[2].stopIn < nodes[2].gain.rampLen

=============================================================================
